---- MODULE Spec2Model ----
(***************************************************************************)
(* x-image-downloader (package xid): the timeline walker                   *)
(* get_tweets_with_images (twitter.py) with the helpers it drives,         *)
(* create_tweet_folder and save_tweet_content_v2 (utils.py),               *)
(* download_image and extract_filename_from_url (downloader.py).           *)
(*                                                                         *)
(* Strings that the code takes apart (URLs, file names) are sequences of   *)
(* atoms: the separators "/", "?", ".", ":" are atoms of their own, every  *)
(* other atom is a run of ordinary characters ("large" is the five letters *)
(* of the size suffix).  split and endswith are computed on these          *)
(* sequences as the code computes them on characters.                      *)
(*                                                                         *)
(* The Twitter API and the image hosts are the environment: every answer   *)
(* they can give (a page, an exception, a failed download) is a            *)
(* nondeterministic choice of the action that makes the call.  The posts   *)
(* of a page are drawn when the for loop reaches them: the code reads      *)
(* response.data one element at a time and never looks ahead.              *)
(***************************************************************************)
EXTENDS Integers, Sequences, FiniteSets, TLC

VARIABLES
    pc,                 \* position in get_tweets_with_images / the outcome
    err,                \* what ended the run early: "none", "api", "download"
    out_dir,            \* does output_path exist on disk
    fs,                 \* the folders below output_path, by folder name
    tweets_processed,   \* twitter.py:67
    tweets_with_images, \* twitter.py:68
    pagination_token,   \* twitter.py:81
    requests,           \* calls of client.get_users_tweets made so far
    request_params,     \* the pagination_token of the latest call
    response,           \* includes and meta of the latest page
    page_left,          \* posts of response.data the for loop has not reached
    media_dict,         \* twitter.py:107
    tweet,              \* the post the for loop is at
    photos,             \* twitter.py:121
    idx,                \* twitter.py:137
    image_urls,         \* twitter.py:134
    tweet_folder,       \* twitter.py:128
    image_url,          \* twitter.py:143 / the argument of extract_filename_from_url
    image_filename,     \* twitter.py:147 / the result of extract_filename_from_url
    att_served,         \* environment: posts with attachments served so far
    api                 \* environment: the timelines the API serves

vars == << pc, err, out_dir, fs, tweets_processed, tweets_with_images,
           pagination_token, requests, request_params, response, page_left,
           media_dict, tweet, photos, idx, image_urls, tweet_folder,
           image_url, image_filename, att_served, api >>

-----------------------------------------------------------------------------
(* Program constants *)

max_tweets == 200

max_results == 100

size_suffixes ==
    << <<":", "large">>, <<":", "medium">>, <<":", "small">>, <<":", "thumb">> >>

(* Bounds of the environment *)

\* pages a timeline of short pages holds at most (no next_token on the last)
MaxPages == 2

\* a page that is not full holds at most this many posts
MaxSmallPage == 2

\* tweet.id of the posts of a timeline that carry attachments, in timeline order
AttPostIds == <<"id1", "id2">>

\* longest URL, in atoms, given to extract_filename_from_url on its own
MaxUrlLen == 4

\* None, and the empty string or list: all of them false in a Python test
None == <<>>

Atoms == {"/", "?", ".", ":", "a", "large", "medium", "small", "thumb"}

Keys == {"k1", "k2"}

\* tweet.created_at, to the second
CreatedAts == [date : {"20250115"}, time : {"090503", "090504"}]

\* photo.url of the media object with a given key, when it has one
UrlOf(key) ==
    IF key = "k1" THEN <<"h", "/", "a", ".", "j", ":", "large">>
                  ELSE <<"h", "/", "b", ":", "small", "?", "x">>

Urls == {UrlOf(k) : k \in Keys}

\* the media objects a page can include
MediaPool ==
    [media_key : Keys, type : {"video"}, url : {None}]
    \cup UNION {{[media_key |-> k, type |-> "photo", url |-> u] :
                     u \in {None, UrlOf(k)}} : k \in Keys}

-----------------------------------------------------------------------------
(* str.split and str.endswith *)

Range(s) == {s[i] : i \in 1..Len(s)}

\* s.split(c)[0]
SplitFirst(s, c) ==
    LET hits == {i \in 1..Len(s) : s[i] = c}
    IN  IF hits = {} THEN s
        ELSE SubSeq(s, 1, (CHOOSE i \in hits : \A j \in hits : i <= j) - 1)

\* s.split(c)[-1]
SplitLast(s, c) ==
    LET hits == {i \in 1..Len(s) : s[i] = c}
    IN  IF hits = {} THEN s
        ELSE SubSeq(s, (CHOOSE i \in hits : \A j \in hits : i >= j) + 1, Len(s))

\* s.endswith(suffix)
EndsWith(s, suffix) ==
    /\ Len(suffix) <= Len(s)
    /\ SubSeq(s, Len(s) - Len(suffix) + 1, Len(s)) = suffix

\* s[:-len(suffix)]
DropLast(s, suffix) == SubSeq(s, 1, Len(s) - Len(suffix))

-----------------------------------------------------------------------------
(* downloader.py *)

\* the loop without the test of downloader.py:64
RECURSIVE StripNameSuffixAlways(_, _)
StripNameSuffixAlways(image_filename_, i) ==
    IF i > Len(size_suffixes) THEN image_filename_
    ELSE IF EndsWith(image_filename_, size_suffixes[i])
         THEN DropLast(image_filename_, size_suffixes[i])
         ELSE StripNameSuffixAlways(image_filename_, i + 1)

\* the for loop over size_suffixes of extract_filename_from_url, from suffix i
RECURSIVE StripNameSuffix(_, _)
StripNameSuffix(image_filename_, i) ==
    IF i > Len(size_suffixes) THEN image_filename_
    ELSE IF EndsWith(image_filename_, size_suffixes[i])
         THEN LET name_part == DropLast(image_filename_, size_suffixes[i])
              IN  IF "." \in Range(name_part) THEN name_part ELSE image_filename_
         ELSE StripNameSuffix(image_filename_, i + 1)

extract_filename_from_url(url) ==
    LET url_path == SplitFirst(url, "?")
    IN  StripNameSuffix(SplitLast(url_path, "/"), 1)

\* the for loop over size_suffixes of download_image, from suffix i
RECURSIVE StripUrlSuffix(_, _)
StripUrlSuffix(original_url_, i) ==
    IF i > Len(size_suffixes) THEN original_url_
    ELSE IF EndsWith(original_url_, size_suffixes[i])
         THEN DropLast(original_url_, size_suffixes[i])
         ELSE StripUrlSuffix(original_url_, i + 1)

\* the URL download_image requests
original_url(url) == StripUrlSuffix(SplitFirst(url, "?"), 1)

\* what download_image can do: succeed, fail before save_path is opened, or
\* fail while the chunks are being written
DownloadOutcomes == {"ok", "failed", "failed_partial"}

-----------------------------------------------------------------------------
(* utils.py: the file system below output_path is fs.dirs, the folders that *)
(* exist, and fs.files, the content of every file that exists, by           *)
(* <<folder name, file name>>.  The content of an image file is the URL it   *)
(* was fetched from and the post it was fetched for.                         *)

Put(f, k, v) == [x \in DOMAIN f \cup {k} |-> IF x = k THEN v ELSE f[x]]

\* tweet_created_at.strftime("%Y%m%d_%H%M%S")
strftime(created_at) == <<created_at.date, "_", created_at.time>>

\* folder_path / "tweet.txt"
txt_path(folder_path) == <<folder_path, <<"tweet", ".", "txt">>>>

\* the file system after create_tweet_folder; the folder is strftime(...)
create_tweet_folder(files, tweet_created_at) ==
    [files EXCEPT !.dirs = @ \cup {strftime(tweet_created_at)}]

\* the file system after save_tweet_content_v2: open(txt_path, 'w') and the writes
save_tweet_content_v2(files, tweet_, folder_path, image_urls_) ==
    [files EXCEPT !.files =
        Put(@, txt_path(folder_path),
            [id |-> tweet_.id, created_at |-> tweet_.created_at,
             image_urls |-> image_urls_])]

\* the file system after open(save_path, 'wb') and the chunks written
write_image(files, save_path, url, tweet_, whole) ==
    [files EXCEPT !.files =
        Put(@, save_path,
            [src |-> original_url(url), post |-> tweet_.id, complete |-> whole])]

-----------------------------------------------------------------------------
(* twitter.py: get_tweets_with_images *)

\* the loop of twitter.py:109-110 over response.includes['media'], from entry i
RECURSIVE BuildMediaDict(_, _, _)
BuildMediaDict(dict, media, i) ==
    IF i > Len(media) THEN dict
    ELSE BuildMediaDict(Put(dict, media[i].media_key, media[i]), media, i + 1)

\* the list comprehension of twitter.py:121-122, from key i
RECURSIVE FilterPhotos(_, _, _)
FilterPhotos(media_keys, dict, i) ==
    IF i > Len(media_keys) THEN <<>>
    ELSE LET key == media_keys[i]
         IN  IF key \in DOMAIN dict /\ dict[key].type = "photo"
             THEN <<dict[key]>> \o FilterPhotos(media_keys, dict, i + 1)
             ELSE FilterPhotos(media_keys, dict, i + 1)

\* tweet.attachments.get('media_keys', []) behind the test of twitter.py:117
MediaKeysOf(tweet_) ==
    IF tweet_.attachments /= None THEN tweet_.attachments[1] ELSE <<>>

\* the test of twitter.py:161
MorePages(resp, processed) ==
    resp.next_token /= None /\ processed < max_tweets

-----------------------------------------------------------------------------
(* The environment: what the API can answer *)

\* len(response.data) of a page that has posts
PageSizes == api.sizes

\* response.includes['media']: media keys are unique within a page; a page
\* includes media only while the timeline has posts with attachments left
IncludesChoices ==
    IF att_served >= api.att THEN {<<>>}
    ELSE {<<>>} \cup {<<m>> : m \in api.media}
         \cup {<<m, n>> : m \in {x \in api.media : x.media_key = "k1"},
                          n \in {x \in api.media : x.media_key = "k2"}}
         \cup {<<n, m>> : m \in {x \in api.media : x.media_key = "k1"},
                          n \in {x \in api.media : x.media_key = "k2"}}

\* response.meta: the token names the page it leads to
TokenChoices ==
    {None} \cup (IF requests + 1 < api.pages THEN {<<requests + 2>>} ELSE {})

\* tweet.attachments of a post that has them: {'media_keys': [...]} with one
\* key or two different ones, or a dict without media keys
AttachmentChoices ==
    {<<ks>> : ks \in {<<>>} \cup {<<k>> : k \in Keys}
                     \cup {kl \in Keys \X Keys : kl[1] /= kl[2]}}

\* a post without attachments: nothing of it is read
PlainTweet ==
    [id |-> "id0", created_at |-> [date |-> "20250115", time |-> "090503"],
     attachments |-> None]

\* the posts the for loop can meet next
TweetChoices ==
    {PlainTweet}
    \cup (IF att_served >= api.att THEN {}
          ELSE [id : {AttPostIds[att_served + 1]}, created_at : CreatedAts,
                attachments : AttachmentChoices])

Served(tweet_) == IF tweet_.attachments /= None THEN att_served + 1 ELSE att_served

-----------------------------------------------------------------------------
(* The state before get_tweets_with_images is called *)

InitLocals ==
    /\ pc = "start"
    /\ err = "none"
    /\ out_dir = FALSE
    /\ fs = [dirs |-> {}, files |-> <<>>]
    /\ tweets_processed = 0
    /\ tweets_with_images = 0
    /\ pagination_token = None
    /\ requests = 0
    /\ request_params = [pagination_token |-> None]
    /\ response = [includes |-> <<>>, next_token |-> None]
    /\ page_left = 0
    /\ media_dict = <<>>
    /\ tweet = PlainTweet
    /\ photos = <<>>
    /\ idx = 0
    /\ image_urls = <<>>
    /\ tweet_folder = None
    /\ image_url = None
    /\ image_filename = None
    /\ att_served = 0

\* timelines of short pages
Init ==
    /\ InitLocals
    /\ api = [sizes |-> 1..MaxSmallPage, pages |-> MaxPages,
              att |-> Len(AttPostIds), media |-> MediaPool]

page_vars == << response, page_left, media_dict >>
post_vars == << tweet, photos, idx, image_urls, tweet_folder, image_url,
                image_filename >>
count_vars == << tweets_processed, tweets_with_images >>
req_vars == << pagination_token, requests, request_params >>
env_vars == << att_served, api >>

\* twitter.py:53-54: no bearer token
NoCredentials ==
    /\ pc = "start"
    /\ pc' = "NO_CREDENTIALS"
    /\ UNCHANGED << err, out_dir, fs, count_vars, req_vars, page_vars,
                    post_vars, env_vars >>

\* twitter.py:57-68
Authenticate ==
    /\ pc = "start"
    /\ out_dir' = TRUE
    /\ tweets_processed' = 0
    /\ tweets_with_images' = 0
    /\ pc' = "get_user"
    /\ UNCHANGED << err, fs, req_vars, page_vars, post_vars, env_vars >>

\* twitter.py:72-75
UserNotFound ==
    /\ pc = "get_user"
    /\ pc' = "USER_NOT_FOUND"
    /\ UNCHANGED << err, out_dir, fs, count_vars, req_vars, page_vars,
                    post_vars, env_vars >>

\* twitter.py:72 raises, twitter.py:170-173
GetUserRaises ==
    /\ pc = "get_user"
    /\ err' = "api"
    /\ pc' = "ABORTED"
    /\ UNCHANGED << out_dir, fs, count_vars, req_vars, page_vars, post_vars,
                    env_vars >>

\* twitter.py:72-82
UserFound ==
    /\ pc = "get_user"
    /\ pagination_token' = None
    /\ pc' = "while"
    /\ UNCHANGED << err, out_dir, fs, count_vars, requests, request_params,
                    page_vars, post_vars, env_vars >>

\* twitter.py:84-101: the call of client.get_users_tweets
Request ==
    /\ pc = "while"
    /\ tweets_processed < max_tweets
    /\ request_params' = [pagination_token |-> pagination_token]
    /\ requests' = requests + 1

\* the request tried again after an exception
FetchRaisesThenRetries ==
    /\ Request
    /\ err' = "api"
    /\ pc' = "while"
    /\ UNCHANGED << out_dir, fs, count_vars, pagination_token, page_vars,
                    post_vars, env_vars >>

\* twitter.py:101 raises, twitter.py:170-173
FetchRaises ==
    /\ Request
    /\ err' = "api"
    /\ pc' = "ABORTED"
    /\ UNCHANGED << out_dir, fs, count_vars, pagination_token, page_vars,
                    post_vars, env_vars >>

\* twitter.py:84 false, or twitter.py:103-104: a page without posts; then
\* twitter.py:166-168
LeaveLoop ==
    /\ pc = "while"
    /\ IF tweets_processed < max_tweets
       THEN /\ Request
            /\ response' = [includes |-> <<>>, next_token |-> None]
            /\ page_left' = 0
       ELSE UNCHANGED << requests, request_params, response, page_left >>
    /\ pc' = "DONE"
    /\ UNCHANGED << err, out_dir, fs, count_vars, pagination_token, media_dict,
                    post_vars, env_vars >>

\* media_dict created once, before the while loop
FetchPageKeepingDict ==
    /\ Request
    /\ \E n \in PageSizes, media \in IncludesChoices, token \in TokenChoices :
           /\ response' = [includes |-> media, next_token |-> token]
           /\ page_left' = n
           /\ media_dict' = BuildMediaDict(media_dict, media, 1)
    /\ pc' = "for_tweet"
    /\ UNCHANGED << err, out_dir, fs, count_vars, pagination_token, post_vars,
                    env_vars >>

\* twitter.py:101-110: a page with posts
FetchPage ==
    /\ Request
    /\ \E n \in PageSizes, media \in IncludesChoices, token \in TokenChoices :
           /\ response' = [includes |-> media, next_token |-> token]
           /\ page_left' = n
           /\ media_dict' = BuildMediaDict(<<>>, media, 1)
    /\ pc' = "for_tweet"
    /\ UNCHANGED << err, out_dir, fs, count_vars, pagination_token, post_vars,
                    env_vars >>

\* the folder created as soon as the post has attachments
TweetWithoutPhotosMakesFolder ==
    /\ pc = "for_tweet"
    /\ page_left > 0
    /\ \E t \in TweetChoices :
           /\ FilterPhotos(MediaKeysOf(t), media_dict, 1) = <<>>
           /\ tweet' = t
           /\ photos' = IF t.attachments /= None THEN <<>> ELSE photos
           /\ att_served' = Served(t)
           /\ fs' = IF t.attachments /= None
                    THEN create_tweet_folder(fs, t.created_at) ELSE fs
    /\ page_left' = page_left - 1
    /\ tweets_processed' = tweets_processed + 1
    /\ UNCHANGED << pc, err, out_dir, tweets_with_images, req_vars,
                    response, media_dict, idx, image_urls, tweet_folder,
                    image_url, image_filename, api >>

\* twitter.py:114 behind the test of twitter.py:124: only posts with photos
\* are counted
TweetWithoutPhotosUncounted ==
    /\ pc = "for_tweet"
    /\ page_left > 0
    /\ \E t \in TweetChoices :
           /\ FilterPhotos(MediaKeysOf(t), media_dict, 1) = <<>>
           /\ tweet' = t
           /\ photos' = IF t.attachments /= None THEN <<>> ELSE photos
           /\ att_served' = Served(t)
    /\ page_left' = page_left - 1
    /\ UNCHANGED << pc, err, out_dir, fs, count_vars, req_vars,
                    response, media_dict, idx, image_urls, tweet_folder,
                    image_url, image_filename, api >>

\* twitter.py:113-124: a post without attachments, or none of them a photo
TweetWithoutPhotos ==
    /\ pc = "for_tweet"
    /\ page_left > 0
    /\ \E t \in TweetChoices :
           /\ FilterPhotos(MediaKeysOf(t), media_dict, 1) = <<>>
           /\ tweet' = t
           /\ photos' = IF t.attachments /= None THEN <<>> ELSE photos
           /\ att_served' = Served(t)
    /\ page_left' = page_left - 1
    /\ tweets_processed' = tweets_processed + 1
    /\ UNCHANGED << pc, err, out_dir, fs, tweets_with_images, req_vars,
                    response, media_dict, idx, image_urls, tweet_folder,
                    image_url, image_filename, api >>

\* twitter.py:113-134: a post with photos
TweetWithPhotos ==
    /\ pc = "for_tweet"
    /\ page_left > 0
    /\ \E t \in TweetChoices :
           /\ FilterPhotos(MediaKeysOf(t), media_dict, 1) /= <<>>
           /\ tweet' = t
           /\ photos' = FilterPhotos(MediaKeysOf(t), media_dict, 1)
           /\ att_served' = Served(t)
           /\ fs' = create_tweet_folder(fs, t.created_at)
           /\ tweet_folder' = strftime(t.created_at)
    /\ page_left' = page_left - 1
    /\ tweets_processed' = tweets_processed + 1
    /\ tweets_with_images' = tweets_with_images + 1
    /\ image_urls' = <<>>
    /\ idx' = 1
    /\ pc' = "for_photo"
    /\ UNCHANGED << err, out_dir, req_vars, response, media_dict, image_url,
                    image_filename, api >>

\* the URL recorded before the test of twitter.py:139
SkipPhotoRecordingUrl ==
    /\ pc = "for_photo"
    /\ idx <= Len(photos)
    /\ photos[idx].url = None
    /\ idx' = idx + 1
    /\ image_urls' = Append(image_urls, photos[idx].url)
    /\ UNCHANGED << pc, err, out_dir, fs, count_vars, req_vars, page_vars,
                    tweet, photos, tweet_folder, image_url,
                    image_filename, env_vars >>

\* twitter.py:137-141: a photo without a URL
SkipPhoto ==
    /\ pc = "for_photo"
    /\ idx <= Len(photos)
    /\ photos[idx].url = None
    /\ idx' = idx + 1
    /\ UNCHANGED << pc, err, out_dir, fs, count_vars, req_vars, page_vars,
                    tweet, photos, image_urls, tweet_folder, image_url,
                    image_filename, env_vars >>

\* twitter.py:143-151: up to the call of download_image
PrepareDownload ==
    /\ pc = "for_photo"
    /\ idx <= Len(photos)
    /\ photos[idx].url /= None
    /\ image_url' = photos[idx].url
    /\ image_urls' = Append(image_urls, photos[idx].url)
    /\ image_filename' = extract_filename_from_url(photos[idx].url)

\* twitter.py:151-154: download_image returns True
DownloadOk ==
    /\ PrepareDownload
    /\ fs' = write_image(fs, <<tweet_folder, image_filename'>>, image_url',
                         tweet, TRUE)
    /\ idx' = idx + 1
    /\ UNCHANGED << pc, err, out_dir, count_vars, req_vars, page_vars, tweet,
                    photos, tweet_folder, env_vars >>

\* continue where twitter.py:153 returns
DownloadFailsThenContinues ==
    /\ PrepareDownload
    /\ err' = "download"
    /\ idx' = idx + 1
    /\ UNCHANGED << pc, fs, out_dir, count_vars, req_vars, page_vars, tweet,
                    photos, tweet_folder, env_vars >>

\* twitter.py:151-153: download_image returns False
DownloadFails ==
    /\ PrepareDownload
    /\ \E outcome \in DownloadOutcomes \ {"ok"} :
           fs' = IF outcome = "failed_partial"
                 THEN write_image(fs, <<tweet_folder, image_filename'>>,
                                  image_url', tweet, FALSE)
                 ELSE fs
    /\ err' = "download"
    /\ pc' = "ABORTED"
    /\ UNCHANGED << out_dir, count_vars, req_vars, page_vars, tweet, photos,
                    idx, tweet_folder, env_vars >>

\* tweet.txt written with the last photo still to come
SaveTweetEarly ==
    /\ pc = "for_photo"
    /\ idx >= Len(photos)
    /\ fs' = save_tweet_content_v2(fs, tweet, tweet_folder, image_urls)
    /\ pc' = "for_tweet"
    /\ UNCHANGED << err, out_dir, count_vars, req_vars, page_vars, post_vars,
                    env_vars >>

\* twitter.py:156-158
SaveTweet ==
    /\ pc = "for_photo"
    /\ idx > Len(photos)
    /\ fs' = save_tweet_content_v2(fs, tweet, tweet_folder, image_urls)
    /\ pc' = "for_tweet"
    /\ UNCHANGED << err, out_dir, count_vars, req_vars, page_vars, post_vars,
                    env_vars >>

\* the loop continued without twitter.py:162
ContinueLoopStaleToken ==
    /\ pc = "for_tweet"
    /\ page_left = 0
    /\ MorePages(response, tweets_processed)
    /\ pc' = "while"
    /\ UNCHANGED << err, out_dir, fs, count_vars, req_vars,
                    page_vars, post_vars, env_vars >>

\* twitter.py:161-162, back to twitter.py:84
ContinueLoop ==
    /\ pc = "for_tweet"
    /\ page_left = 0
    /\ MorePages(response, tweets_processed)
    /\ pagination_token' = response.next_token
    /\ pc' = "while"
    /\ UNCHANGED << err, out_dir, fs, count_vars, requests, request_params,
                    page_vars, post_vars, env_vars >>

\* twitter.py:163-168
BreakLoop ==
    /\ pc = "for_tweet"
    /\ page_left = 0
    /\ ~MorePages(response, tweets_processed)
    /\ pc' = "DONE"
    /\ UNCHANGED << err, out_dir, fs, count_vars, req_vars, page_vars,
                    post_vars, env_vars >>

Next ==
    \/ NoCredentials
    \/ Authenticate
    \/ UserNotFound
    \/ GetUserRaises
    \/ UserFound
    \/ FetchRaises
    \/ LeaveLoop
    \/ FetchPage
    \/ TweetWithoutPhotos
    \/ TweetWithPhotos
    \/ SkipPhoto
    \/ DownloadOk
    \/ DownloadFails
    \/ SaveTweet
    \/ ContinueLoop
    \/ BreakLoop

Spec == Init /\ [][Next]_vars

\* timelines of full pages and pages of one post, one more page, one post
\* with attachments
InitCap ==
    /\ InitLocals
    /\ api = [sizes |-> {1, max_results}, pages |-> MaxPages + 1, att |-> 1,
              media |-> MediaPool]

SpecCap == InitCap /\ [][Next]_vars

\* a timeline of pages of one post that never ends: a next_token on every
\* page the code can ask for; one post with attachments, its media the photo
\* k1 with or without a URL
InitLong ==
    /\ InitLocals
    /\ api = [sizes |-> {1}, pages |-> max_tweets + 1, att |-> 1,
              media |-> {m \in MediaPool :
                            m.media_key = "k1" /\ m.type = "photo"}]

\* every call returns or raises: the run takes its next step
SpecLong == InitLong /\ [][Next]_vars /\ WF_vars(Next)

-----------------------------------------------------------------------------
(* extract_filename_from_url on its own *)

RECURSIVE SeqsUpTo(_, _)
SeqsUpTo(S, n) ==
    IF n = 0 THEN {<<>>}
    ELSE LET shorter == SeqsUpTo(S, n - 1)
         IN  shorter \cup {Append(q, x) : q \in shorter, x \in S}

\* ".../foo.jpg:large?x=1" and ".../foo:large"
ExampleUrls ==
    { <<"a", "/", "a", ".", "a", ":", "large", "?", "a">>,
      <<"a", "/", "a", ":", "large">> }

UrlInputs == SeqsUpTo(Atoms, MaxUrlLen) \cup ExampleUrls \cup Urls

InitFn ==
    /\ pc = "extract"
    /\ err = "none"
    /\ out_dir = FALSE
    /\ fs = [dirs |-> {}, files |-> <<>>]
    /\ tweets_processed = 0
    /\ tweets_with_images = 0
    /\ pagination_token = None
    /\ requests = 0
    /\ request_params = [pagination_token |-> None]
    /\ response = [includes |-> <<>>, next_token |-> None]
    /\ page_left = 0
    /\ media_dict = <<>>
    /\ tweet = PlainTweet
    /\ photos = <<>>
    /\ idx = 0
    /\ image_urls = <<>>
    /\ tweet_folder = None
    /\ image_url \in UrlInputs
    /\ image_filename = None
    /\ att_served = 0
    /\ api = [sizes |-> {}, pages |-> 0, att |-> 0, media |-> {}]

\* twitter.py:147: the call of extract_filename_from_url
ExtractFilename ==
    /\ pc = "extract"
    /\ image_filename' = extract_filename_from_url(image_url)
    /\ pc' = "extracted"
    /\ UNCHANGED << err, out_dir, fs, count_vars, req_vars, page_vars, tweet,
                    photos, idx, image_urls, tweet_folder, image_url, env_vars >>

NextFn == ExtractFilename

SpecFn == InitFn /\ [][NextFn]_vars

-----------------------------------------------------------------------------
(* Properties *)

Terminal == {"DONE", "ABORTED", "USER_NOT_FOUND", "NO_CREDENTIALS"}

\* the run has returned: nothing happens any more
Stopped == pc \in Terminal => UNCHANGED vars

HasFile(path) == path \in DOMAIN fs.files

\* tweet.txt of the post the for loop is at has been written
TxtWritten ==
    /\ HasFile(txt_path(tweet_folder))
    /\ fs.files[txt_path(tweet_folder)].id = tweet.id

\* C1: fail-fast.  Once download_image has returned failure the run is over
\* (ABORTED, and no step follows); the failing step attempts no later image,
\* processes no later post and requests no page; tweet.txt of that post has
\* not been written.
C1_FailFast ==
    /\ [](err = "download" => pc = "ABORTED" /\ ~TxtWritten)
    /\ [][(err' = "download" /\ err = "none") =>
             /\ idx' = idx
             /\ page_left' = page_left
             /\ tweets_processed' = tweets_processed
             /\ requests' = requests]_vars
    /\ [][Stopped]_vars

\* the first of two photos failed, with posts and pages left
C1_Witness ==
    /\ err = "download"
    /\ Len(photos) = 2
    /\ idx = 1
    /\ page_left > 0
    /\ response.next_token /= None

\* C2: the processed-post counter never exceeds 200.
C2_PostCap == tweets_processed <= max_tweets

\* the posts received so far came in full pages only
AllPagesFull ==
    /\ pc \in {"for_tweet", "for_photo", "while", "DONE"}
    /\ tweets_processed + page_left = requests * max_results

\* C3: pagination.  The first request carries no token; every later request
\* is made only after a response with a next-page token and with fewer than
\* 200 posts processed, and carries that token; after a page is processed the
\* loop goes on exactly if the response had a token and fewer than 200 posts
\* are processed, and going on means a request; full pages only give at most
\* two requests.
C3_Pagination ==
    /\ [][requests' /= requests =>
             /\ requests' = requests + 1
             /\ request_params'.pagination_token =
                    IF requests = 0 THEN None ELSE response.next_token
             /\ requests > 0 =>
                    /\ response.next_token /= None
                    /\ tweets_processed < max_tweets]_vars
    /\ [][(pc = "for_tweet" /\ page_left = 0) =>
             IF response.next_token /= None /\ tweets_processed < max_tweets
             THEN pc' = "while" ELSE pc' = "DONE"]_vars
    /\ [][pc = "while" => requests' = requests + 1]_vars
    /\ [](AllPagesFull => requests <= 2)
    /\ [][Stopped]_vars

\* two full pages, the second one with a next-page token, and the run is done
C3_Witness ==
    /\ pc = "DONE"
    /\ requests = 2
    /\ request_params.pagination_token = <<2>>
    /\ response.next_token /= None
    /\ tweets_processed = 2 * max_results

\* the media object of the page's media list with a key, if it is a photo
PagePhotos(key) ==
    {m \in Range(response.includes) : m.media_key = key /\ m.type = "photo"}

\* C4: media join.  While a page is processed the lookup holds exactly the
\* media of that page's media list; when the for loop takes a post with
\* attachments, photos becomes the post's media keys that the list of the
\* same page resolves to a photo, in the post's order, each with its media
\* object; the other keys are dropped and nothing is reported.
C4_MediaJoin ==
    /\ [](pc \in {"for_tweet", "for_photo"} =>
             /\ DOMAIN media_dict = {m.media_key : m \in Range(response.includes)}
             /\ \A k \in DOMAIN media_dict : media_dict[k] \in Range(response.includes))
    /\ [][(tweets_processed' /= tweets_processed /\ tweet'.attachments /= None) =>
             LET kept == SelectSeq(MediaKeysOf(tweet'),
                                   LAMBDA k : PagePhotos(k) /= {})
             IN  /\ Len(photos') = Len(kept)
                 /\ \A i \in 1..Len(kept) : photos'[i] \in PagePhotos(kept[i])
                 /\ err' = "none"
                 /\ pc' \in {"for_tweet", "for_photo"}]_vars

\* the second page, reached after a page of one post whose photo k1 was saved:
\* its post names k1 and k2, its media list has a photo for k2 only
C4_Witness ==
    /\ pc = "for_photo"
    /\ requests = 2
    /\ tweets_processed = 2
    /\ \E p \in DOMAIN fs.files :
           fs.files[p] = [src |-> original_url(UrlOf("k1")), post |-> "id1",
                          complete |-> TRUE]
    /\ tweet.id = "id2"
    /\ MediaKeysOf(tweet) = <<"k1", "k2">>
    /\ DOMAIN media_dict = {"k2"}
    /\ Len(photos) = 1
    /\ photos[1].media_key = "k2"

\* some attachment key of a post resolves to a photo in the page's media list
ResolvesPhoto(tweet_) == \E k \in Range(MediaKeysOf(tweet_)) : PagePhotos(k) /= {}

\* C5: a post gets a folder, and counts as a post with images, exactly if one
\* of its attachment keys resolves to a photo; any other post changes nothing
\* on disk and the loop goes on to the next post; downloads and the metadata
\* write happen only for a post with photos.
C5_FolderOnlyForPhotos ==
    /\ [][tweets_processed' /= tweets_processed =>
             IF ResolvesPhoto(tweet')
             THEN /\ tweets_with_images' = tweets_with_images + 1
                  /\ strftime(tweet'.created_at) \in fs'.dirs
                  /\ pc' = "for_photo"
             ELSE /\ tweets_with_images' = tweets_with_images
                  /\ fs' = fs
                  /\ pc' = "for_tweet"]_vars
    /\ [][(fs' /= fs \/ tweets_with_images' /= tweets_with_images) =>
             ResolvesPhoto(tweet')]_vars
    /\ [](pc = "for_photo" => ResolvesPhoto(tweet) /\ photos /= <<>>)

\* a post whose only attachment is a video has been passed: nothing on disk
C5_Witness ==
    /\ pc = "for_tweet"
    /\ tweet.attachments = << <<"k1">> >>
    /\ "k1" \in DOMAIN media_dict
    /\ media_dict["k1"].type = "video"
    /\ tweets_processed > 0
    /\ tweets_with_images = 0
    /\ fs.dirs = {}

\* the URLs of the photos that have one, in photo order
UrlsOf(photos_) ==
    LET with_url == SelectSeq(photos_, LAMBDA p : p.url /= None)
    IN  [i \in 1..Len(with_url) |-> with_url[i].url]

\* the image of a URL is in the post's folder, whole, fetched for this post
Downloaded(u) ==
    /\ HasFile(<<tweet_folder, extract_filename_from_url(u)>>)
    /\ fs.files[<<tweet_folder, extract_filename_from_url(u)>>] =
          [src |-> original_url(u), post |-> tweet.id, complete |-> TRUE]

\* C6: when tweet.txt is written, the URL list written is the URLs, in photo
\* order, of the post's photos that have a URL, and the image of each of
\* them has been downloaded; a photo without a URL is passed over and the run
\* goes on; tweet.txt is written once all photos are passed.
C6_MetadataUrls ==
    /\ [][(pc = "for_photo" /\ pc' = "for_tweet") =>
             /\ HasFile(txt_path(tweet_folder))'
             /\ fs'.files[txt_path(tweet_folder)].image_urls = UrlsOf(photos)
             /\ fs'.files[txt_path(tweet_folder)].id = tweet.id
             /\ \A u \in Range(UrlsOf(photos)) : Downloaded(u)]_vars
    /\ [][(pc = "for_photo" /\ idx <= Len(photos) /\ photos[idx].url = None) =>
             /\ pc' = "for_photo"
             /\ err' = "none"
             /\ idx' = idx + 1
             /\ fs' = fs]_vars
    /\ [][(pc = "for_photo" /\ idx > Len(photos)) => pc' = "for_tweet"]_vars

\* tweet.txt written with one URL for a post of two photos
C6_Witness ==
    /\ pc = "for_tweet"
    /\ TxtWritten
    /\ Len(photos) = 2
    /\ photos[1].url = None
    /\ fs.files[txt_path(tweet_folder)].image_urls = <<photos[2].url>>

\* C7: when the user does not exist, no page has been requested and nothing
\* has been created or written on disk.
C7_NoPartialOutput ==
    pc = "USER_NOT_FOUND" =>
        /\ requests = 0
        /\ out_dir = FALSE
        /\ fs = [dirs |-> {}, files |-> <<>>]

\* C8: page-fetch error.  Once a request has raised, the run is over
\* (ABORTED, and no step follows: no retry, no request, download or write);
\* the step of the failed request changes nothing on disk.
C8_FetchError ==
    /\ [](err = "api" => pc = "ABORTED")
    /\ [][(err' = "api" /\ err = "none") =>
             /\ fs' = fs
             /\ out_dir' = out_dir
             /\ pc' = "ABORTED"]_vars
    /\ [][Stopped]_vars

\* the second request raised, with a post's files on disk from the first page
C8_Witness ==
    /\ err = "api"
    /\ requests = 2
    /\ HasFile(txt_path(tweet_folder))
    /\ \E u \in Urls : Downloaded(u)

\* the URL up to its first "?"
CutAtQuery(u) ==
    CHOOSE c \in {SubSeq(u, 1, n) : n \in 0..Len(u)} :
        /\ "?" \notin Range(c)
        /\ Len(c) = Len(u) \/ u[Len(c) + 1] = "?"

\* the text after the last "/"
LastSegment(c) ==
    CHOOSE g \in {SubSeq(c, m + 1, Len(c)) : m \in 0..Len(c)} :
        /\ "/" \notin Range(g)
        /\ Len(g) = Len(c) \/ c[Len(c) - Len(g)] = "/"

ReservedSuffixes ==
    { <<":", "large">>, <<":", "medium">>, <<":", "small">>, <<":", "thumb">> }

\* C9: the file name of a URL is the text after the last "/" of the URL cut
\* at its first "?", without its size suffix if it ends with one and what
\* remains contains a "."; it contains neither "?" nor "/".
C9_ExtractFilename ==
    pc = "extracted" =>
        LET seg == LastSegment(CutAtQuery(image_url))
            stripped == {r \in {SubSeq(seg, 1, n) : n \in 0..Len(seg)} :
                            \E x \in ReservedSuffixes :
                                seg = r \o x /\ "." \in Range(r)}
        IN  /\ "?" \notin Range(image_filename)
            /\ "/" \notin Range(image_filename)
            /\ IF stripped /= {} THEN image_filename \in stripped
                                 ELSE image_filename = seg

\* ".../foo.jpg:large?x=1" has given "foo.jpg"
C9_Witness ==
    /\ pc = "extracted"
    /\ image_url = <<"a", "/", "a", ".", "a", ":", "large", "?", "a">>
    /\ image_filename = <<"a", ".", "a">>

\* ".../foo:large" has given "foo:large"
C9_WitnessKept ==
    /\ pc = "extracted"
    /\ image_url = <<"a", "/", "a", ":", "large">>
    /\ image_filename = <<"a", ":", "large">>

\* the posts whose images or tweet.txt are in a folder
PostsIn(folder) ==
    {IF p[2] = <<"tweet", ".", "txt">> THEN fs.files[p].id ELSE fs.files[p].post :
        p \in {q \in DOMAIN fs.files : q[1] = folder}}

\* C10: no output folder holds files of two posts of the run, and a tweet.txt
\* once written is not written again.
C10_NoMerge ==
    /\ [](\A folder \in fs.dirs : Cardinality(PostsIn(folder)) <= 1)
    /\ [][\A folder \in fs.dirs :
             HasFile(txt_path(folder)) =>
                fs'.files[txt_path(folder)] = fs.files[txt_path(folder)]]_vars

\* the image files on disk
ImageFiles(files) ==
    {p \in DOMAIN files.files : p[2] /= <<"tweet", ".", "txt">>}

\* C11: a post with photos is taken through its steps in order and to the
\* end before the next post.  While its photos are being passed the post,
\* its photos and its folder stay the same, the folder exists, no other
\* folder is created and no other post is counted; the photos are passed one
\* at a time in photo order, each download writes nothing but the file of the
\* photo at idx in the post's folder; tweet.txt is written only after the
\* last photo, and a post is taken up only between posts.
C11_PostOrder ==
    /\ [](pc = "for_photo" => tweet_folder = strftime(tweet.created_at)
                               /\ tweet_folder \in fs.dirs)
    /\ [][pc = "for_photo" =>
             /\ tweet' = tweet
             /\ photos' = photos
             /\ tweet_folder' = tweet_folder
             /\ fs'.dirs = fs.dirs
             /\ tweets_processed' = tweets_processed
             /\ idx' \in {idx, idx + 1}
             /\ pc' \in {"for_photo", "for_tweet", "ABORTED"}]_vars
    /\ [][ImageFiles(fs') /= ImageFiles(fs) \/
           (\E p \in ImageFiles(fs) : fs'.files[p] /= fs.files[p]) =>
             /\ pc = "for_photo"
             /\ idx <= Len(photos)
             /\ \A p \in ImageFiles(fs') :
                    (p \notin ImageFiles(fs) \/ fs'.files[p] /= fs.files[p]) =>
                       /\ p = <<tweet_folder,
                                extract_filename_from_url(photos[idx].url)>>
                       /\ fs'.files[p].post = tweet.id]_vars
    /\ [][(pc = "for_photo" /\ pc' = "for_tweet") =>
             /\ idx = Len(photos) + 1
             /\ HasFile(txt_path(tweet_folder))'
             /\ fs'.files[txt_path(tweet_folder)].id = tweet.id]_vars
    /\ [][(tweets_processed' /= tweets_processed \/ fs'.dirs /= fs.dirs) =>
             pc = "for_tweet"]_vars

\* the second post with photos is at its second photo, its first one saved;
\* the first post has its tweet.txt, in another folder
C11_Witness ==
    /\ pc = "for_photo"
    /\ tweet.id = "id2"
    /\ Len(photos) = 2
    /\ idx = 2
    /\ Downloaded(photos[1].url)
    /\ \E folder \in fs.dirs \ {tweet_folder} :
           /\ HasFile(txt_path(folder))
           /\ fs.files[txt_path(folder)].id = "id1"

\* the walk has ended
WalkEnded == pc \in {"DONE", "ABORTED", "USER_NOT_FOUND"}

\* C12: the walk terminates.  Once the user lookup is reached the run ends
\* DONE, ABORTED or USER_NOT_FOUND, whatever the API answers; a page is
\* requested only with fewer than 200 posts processed and with at least one
\* post processed for every request made before, so there are at most 200
\* page requests.
C12_Terminates ==
    /\ (pc = "get_user") ~> WalkEnded
    /\ [][requests' /= requests =>
             /\ requests <= tweets_processed
             /\ tweets_processed < max_tweets]_vars
    /\ [](requests <= max_tweets)

\* 200 page requests made, every page with a next_token, and the run is done
C12_Witness ==
    /\ pc = "DONE"
    /\ requests = max_tweets
    /\ response.next_token /= None

====
